---- MODULE Spec2Model ----
(***************************************************************************)
(* restful-rtc: an HTTP request/response tunnel over a peer data channel.  *)
(* The gateway (initiator, gateway_peerjs.go) splits each request into     *)
(* packets, the endpoint (responder, endpoint_peerjs.go) reassembles,      *)
(* executes and answers, and the gateway reassembles the answer and hands  *)
(* it to the waiting httpHandler.                                          *)
(*                                                                         *)
(* Byte strings are sequences of naturals.  MaxChunkSize is scaled down    *)
(* from the code's 16*1024: the splitter only compares multiples of it     *)
(* with len(data).                                                         *)
(***************************************************************************)
EXTENDS Integers, Sequences, FiniteSets, TLC

\* ------------------------------------------------------------------ bounds
MaxChunkSize == 3
\* concurrent external HTTP calls; call c carries the fresh uuid c
NumCalls == 2
\* longest body of a tunneled request / response
MaxBody == 1
\* frames the transport may deliver a second time (at-least-once delivery)
MaxDup == 1
\* frame handlers of the gateway that may be blocked in a hand-off at once
MaxHandlers == 1
\* 'data' handlers of the gateway that run at the same time, and the packets
\* the transport may deliver again to them
NumHandlers == 3
HdMaxDup == 2

\* ------------------------------------------------------- program constants
PacketTypeRequest == "request"
PacketTypeResponse == "response"
StatusOK == 200
StatusInternalServerError == 500
StatusBadGateway == 502
StatusGatewayTimeout == 504
\* lastSequence of a fresh ReassemblyBuffer: the last packet is not seen yet
NoLast == -1

Ids == 1..NumCalls
PacketTypes == {PacketTypeRequest, PacketTypeResponse}

\* ------------------------------------------------------------ byte helpers
\* Go's data[start:end]
Slice(data, start, end) == SubSeq(data, start + 1, end)

Max(a, b) == IF a >= b THEN a ELSE b

CeilDiv(a, b) == (a + b - 1) \div b

\* all byte strings over B of length at most n
SeqsUpTo(B, n) == UNION {[1..k -> B] : k \in 0..n}

\* ---------------------------------------------------------------- splitter
\* One iteration of sendSplitPacket's loop: the bounds and the flag it
\* computes for chunk i of data.
ChunkBoundsKeepsEmptyTail(data, i) ==
    LET start == i * MaxChunkSize
        end   == start + MaxChunkSize
    IN IF end > Len(data)
         THEN [start |-> start, end |-> Len(data), isLast |-> TRUE]
         ELSE [start |-> start, end |-> end, isLast |-> FALSE]

ChunkBounds(data, i) ==
    LET start == i * MaxChunkSize
        end   == start + MaxChunkSize
    IN IF end >= Len(data)
         THEN [start |-> start, end |-> Len(data), isLast |-> TRUE]
         ELSE [start |-> start, end |-> end, isLast |-> FALSE]

\* The Packet the loop builds at iteration i.
MakePacket(requestID, packetType, data, i) ==
    LET b == ChunkBounds(data, i)
    IN [ID       |-> requestID,
        Type     |-> packetType,
        Sequence |-> i,
        IsLast   |-> b.isLast,
        Payload  |-> Slice(data, b.start, b.end)]

\* ------------------------------------------------------------- reassembler
\* NewReassemblyBuffer()
NewReassemblyBuffer == [packets |-> << >>, lastSequence |-> NoLast]

NoBuffer == [absent |-> TRUE]

\* rb.packets[packet.Sequence] = packet.Payload; if packet.IsLast { ... }
StorePacket(rb, packet) ==
    [packets |->
        [s \in (DOMAIN rb.packets) \cup {packet.Sequence} |->
            IF s = packet.Sequence THEN packet.Payload ELSE rb.packets[s]],
     lastSequence |->
        IF packet.IsLast THEN packet.Sequence ELSE rb.lastSequence]

\* isComplete := rb.lastSequence != -1 && len(rb.packets) == rb.lastSequence+1
IsCompleteOnLast(rb) == rb.lastSequence # NoLast

IsComplete(rb) ==
    /\ rb.lastSequence # NoLast
    /\ Cardinality(DOMAIN rb.packets) = rb.lastSequence + 1

\* sort.Ints(keys)
RECURSIVE SortInts(_)
SortInts(S) ==
    IF S = {} THEN << >>
    ELSE LET m == CHOOSE x \in S : \A y \in S : x <= y
         IN <<m>> \o SortInts(S \ {m})

\* for _, k := range keys { fullData.Write(rb.packets[k]) }
RECURSIVE WriteAll(_, _)
WriteAll(packets, keys) ==
    IF keys = << >> THEN << >>
    ELSE packets[Head(keys)] \o WriteAll(packets, Tail(keys))

ConcatUnsorted(rb) ==
    LET n == Cardinality(DOMAIN rb.packets)
        keys == IF n <= 1 THEN SortInts(DOMAIN rb.packets)
                ELSE <<rb.lastSequence>>
                       \o SortInts((DOMAIN rb.packets) \ {rb.lastSequence})
    IN WriteAll(rb.packets, keys)

Concat(rb) == WriteAll(rb.packets, SortInts(DOMAIN rb.packets))

\* The reassembly part of a 'data' handler (LoadOrStore .. Delete) on the
\* buffer map bufs, keyed by packet.ID.
AcceptPacketOneKey(bufs, packet) ==
    LET key == CHOOSE i \in DOMAIN bufs : \A j \in DOMAIN bufs : i <= j
        old == bufs[key]
        rb  == StorePacket(IF old = NoBuffer THEN NewReassemblyBuffer ELSE old,
                           packet)
    IN IF IsComplete(rb)
         THEN [bufs |-> [bufs EXCEPT ![key] = NoBuffer],
               complete |-> TRUE, data |-> Concat(rb)]
         ELSE [bufs |-> [bufs EXCEPT ![key] = rb],
               complete |-> FALSE, data |-> << >>]

AcceptPacketKeepsBuffer(bufs, packet) ==
    LET old == bufs[packet.ID]
        rb  == StorePacket(IF old = NoBuffer THEN NewReassemblyBuffer ELSE old,
                           packet)
    IN IF IsComplete(rb)
         THEN [bufs |-> [bufs EXCEPT ![packet.ID] = rb],
               complete |-> TRUE, data |-> Concat(rb)]
         ELSE [bufs |-> [bufs EXCEPT ![packet.ID] = rb],
               complete |-> FALSE, data |-> << >>]

\* The reassembly part of a 'data' handler (LoadOrStore .. Delete) on the
\* buffer map bufs: the map afterwards, whether the message is complete and,
\* if so, its bytes.
AcceptPacket(bufs, packet) ==
    LET old == bufs[packet.ID]
        rb  == StorePacket(IF old = NoBuffer THEN NewReassemblyBuffer ELSE old,
                           packet)
    IN IF IsComplete(rb)
         THEN [bufs |-> [bufs EXCEPT ![packet.ID] = NoBuffer],
               complete |-> TRUE, data |-> Concat(rb)]
         ELSE [bufs |-> [bufs EXCEPT ![packet.ID] = rb],
               complete |-> FALSE, data |-> << >>]

\* --------------------------------------------------------------- variables
VARIABLES
    \* gateway: one httpHandler per call, the two sync.Maps, the frame
    \* handlers blocked in "ch <- &resp", the "Reassembled response" log
    hpc, hreq, hnext, hout, responseChannels, responseBuffers, gwSend,
    reassembled,
    \* data channel: packets under way to the endpoint and to the gateway
    toEp, toGw, dups,
    \* endpoint: its sync.Map and the handleAssembledRequest goroutines
    requestBuffers, tasks,
    \* one message through splitter and reassembler
    \* (rtLast: the packet the handler ran on last)
    rtData, rtSent, rtDone, rtPool, rtSeen, rtOut, rtLast,
    \* concurrently running 'data' handlers of the gateway, statement by
    \* statement: the ReassemblyBuffers allocated, responseBuffers as a map
    \* from id to buffer, the holder of each buffer's mutex, each handler's
    \* position and locals, and whether the runtime has ended the process
    hdHeap, hdMap, hdLock, hd, hdFatal

gwVars == <<hpc, hreq, hnext, hout, responseChannels, gwSend, reassembled>>
netVars == <<toEp, toGw>>
epVars == <<requestBuffers, tasks>>
rtVars == <<rtData, rtSent, rtDone, rtPool, rtSeen, rtOut, rtLast>>
hdVars == <<hdHeap, hdMap, hdLock, hd, hdFatal>>
vars == <<gwVars, responseBuffers, netVars, dups, epVars, rtVars, hdVars>>

NoPacket == [none |-> TRUE]

\* gwSend[k]: the hand-off handler k is blocked in, or none
NoSend == [idle |-> TRUE]

\* what a call ended with: the path, the status and body written, and for
\* a tunneled response its id and the id of the packets it came in
NoOut == [via |-> "none", status |-> 0, body |-> << >>, rid |-> 0, pid |-> 0]

\* a handler that is not running
HdIdle == [pc |-> "idle", packet |-> NoPacket, rb |-> 0, keys |-> << >>,
           data |-> << >>]

\* The state after construction: no call, empty maps, empty channel.
SysInit ==
    /\ hpc = [c \in Ids |-> "idle"]
    /\ hreq = [c \in Ids |-> << >>]
    /\ hnext = [c \in Ids |-> 0]
    /\ hout = [c \in Ids |-> NoOut]
    /\ responseChannels = {}
    /\ responseBuffers = [i \in Ids |-> NoBuffer]
    /\ gwSend = [k \in 1..MaxHandlers |-> NoSend]
    /\ reassembled = [i \in Ids |-> 0]
    /\ toEp = << >>
    /\ toGw = << >>
    /\ dups = 0
    /\ requestBuffers = [i \in Ids |-> NoBuffer]
    /\ tasks = [i \in Ids |-> << >>]
    /\ hdHeap = << >>
    /\ hdMap = [i \in Ids |-> 0]
    /\ hdLock = << >>
    /\ hd = [h \in 1..NumHandlers |-> HdIdle]
    /\ hdFatal = FALSE

\* no message in the splitter/reassembler harness
RtIdle ==
    /\ rtData = [id |-> 0, data |-> << >>]
    /\ rtSent = << >>
    /\ rtDone = FALSE
    /\ rtPool = {}
    /\ rtSeen = << >>
    /\ rtOut = << >>
    /\ rtLast = NoPacket

\* ------------------------------------------- one message, any arrival order
\* sendSplitPacket(dc, id, "response", data) sends packet after packet; the
\* gateway's 'data' handler accepts the packets under way in any order, and
\* the transport may deliver a packet again.
RtMaxLen == 2 * MaxChunkSize + 1
RtBytes == {0, 1}

RtInit ==
    /\ SysInit
    /\ rtData \in [id : Ids, data : SeqsUpTo(RtBytes, RtMaxLen)]
    /\ rtSent = << >>
    /\ rtDone = FALSE
    /\ rtPool = {}
    /\ rtSeen = << >>
    /\ rtOut = << >>
    /\ rtLast = NoPacket

\* one iteration of the loop of sendSplitPacket
RtSend ==
    /\ ~rtDone
    /\ LET packet == MakePacket(rtData.id, PacketTypeResponse, rtData.data,
                                Len(rtSent))
       IN /\ rtSent' = Append(rtSent, packet)
          /\ rtPool' = rtPool \cup {packet}
          /\ rtDone' = packet.IsLast
    /\ UNCHANGED <<gwVars, responseBuffers, netVars, dups, epVars,
                   rtData, rtSeen, rtOut, rtLast, hdVars>>

\* the 'data' handler on one packet (it handles response packets, the only
\* ones sent here)
RtHandle(packet) ==
    /\ packet.Type = PacketTypeResponse
    /\ LET r == AcceptPacket(responseBuffers, packet)
       IN /\ responseBuffers' = r.bufs
          /\ rtOut' = IF r.complete THEN Append(rtOut, r.data) ELSE rtOut
          /\ rtLast' = packet

RtAccept ==
    /\ \E packet \in rtPool :
          /\ RtHandle(packet)
          /\ rtPool' = rtPool \ {packet}
          /\ rtSeen' = Append(rtSeen, packet)
    /\ UNCHANGED <<gwVars, netVars, dups, epVars, rtData, rtSent, rtDone,
                   hdVars>>

RtRedeliver ==
    /\ dups < MaxDup
    /\ \E k \in 1..Len(rtSeen) : RtHandle(rtSeen[k])
    /\ dups' = dups + 1
    /\ UNCHANGED <<gwVars, netVars, epVars, rtData, rtSent, rtDone, rtPool,
                   rtSeen, hdVars>>

RtNext == RtSend \/ RtAccept \/ RtRedeliver

SpecRoundTrip == RtInit /\ [][RtNext]_vars

\* ------------------------------------- concurrent handlers, one message
\* The gateway's 'data' handler run by several goroutines at once on the
\* packets of one response message, one statement of the handler per step.
\* A ReassemblyBuffer is an object on the heap (hdHeap[a], a its address);
\* responseBuffers maps an id to an address (hdMap, 0: no entry).
HdInit ==
    /\ SysInit
    /\ rtData \in [id : {1}, data : SeqsUpTo({0}, MaxChunkSize + 1)]
    /\ rtSent = << >>
    /\ rtDone = FALSE
    /\ rtPool = {}
    /\ rtSeen = << >>
    /\ rtOut = << >>
    /\ rtLast = NoPacket

\* the handlers share nothing but the map, the buffers and their mutexes
HdOthers == <<gwVars, responseBuffers, netVars, epVars>>

\* sendSplitPacket on the peer, one iteration
HdSend ==
    /\ ~hdFatal
    /\ RtSend

\* the goroutine that will run the handler on the next packet
HdFree(h) ==
    /\ hd[h].pc = "idle"
    /\ \A g \in 1..NumHandlers : g < h => hd[g].pc # "idle"

\* conn.On("data", ...) is called with a packet under way, or with one the
\* transport delivers again; json.Unmarshal and the test of packet.Type
HdStart(h) ==
    /\ ~hdFatal
    /\ HdFree(h)
    /\ \/ \E packet \in rtPool :
             /\ packet.Type = PacketTypeResponse
             /\ hd' = [hd EXCEPT ![h] =
                   [HdIdle EXCEPT !.pc = "loadOrStore", !.packet = packet]]
             /\ rtPool' = rtPool \ {packet}
             /\ rtSeen' = Append(rtSeen, packet)
             /\ dups' = dups
       \/ \E k \in 1..Len(rtSeen) :
             /\ dups < HdMaxDup
             /\ hd' = [hd EXCEPT ![h] =
                   [HdIdle EXCEPT !.pc = "loadOrStore", !.packet = rtSeen[k]]]
             /\ dups' = dups + 1
             /\ UNCHANGED <<rtPool, rtSeen>>
    /\ UNCHANGED <<HdOthers, rtData, rtSent, rtDone, rtOut, rtLast, hdHeap,
                   hdMap, hdLock, hdFatal>>

\* buf, _ := responseBuffers.LoadOrStore(packet.ID, NewReassemblyBuffer())
HdLoadOrStore(h) ==
    /\ ~hdFatal
    /\ hd[h].pc = "loadOrStore"
    /\ LET id == hd[h].packet.ID
       IN IF hdMap[id] = 0
            THEN /\ hdHeap' = Append(hdHeap, NewReassemblyBuffer)
                 /\ hdLock' = Append(hdLock, 0)
                 /\ hdMap' = [hdMap EXCEPT ![id] = Len(hdHeap) + 1]
                 /\ hd' = [hd EXCEPT ![h].pc = "lock",
                                     ![h].rb = Len(hdHeap) + 1]
            ELSE /\ hd' = [hd EXCEPT ![h].pc = "lock", ![h].rb = hdMap[id]]
                 /\ UNCHANGED <<hdHeap, hdLock, hdMap>>
    /\ UNCHANGED <<HdOthers, dups, rtVars, hdFatal>>

\* rb.Lock()
HdLock(h) ==
    /\ ~hdFatal
    /\ hd[h].pc = "lock"
    /\ hdLock[hd[h].rb] = 0
    /\ hdLock' = [hdLock EXCEPT ![hd[h].rb] = h]
    /\ hd' = [hd EXCEPT ![h].pc = "store"]
    /\ UNCHANGED <<HdOthers, dups, rtVars, hdHeap, hdMap, hdFatal>>

\* rb.packets[..] = ..; if packet.IsLast {..}; isComplete := ..; rb.Unlock()
HdStore(h) ==
    /\ ~hdFatal
    /\ hd[h].pc = "store"
    /\ LET rb == StorePacket(hdHeap[hd[h].rb], hd[h].packet)
       IN /\ hdHeap' = [hdHeap EXCEPT ![hd[h].rb] = rb]
          /\ hd' = [hd EXCEPT ![h] =
                IF IsComplete(rb) THEN [@ EXCEPT !.pc = "keys"] ELSE HdIdle]
    /\ hdLock' = [hdLock EXCEPT ![hd[h].rb] = 0]
    /\ rtLast' = hd[h].packet
    /\ UNCHANGED <<HdOthers, dups, rtData, rtSent, rtDone, rtPool, rtSeen,
                   rtOut, hdMap, hdFatal>>

\* keys := ..; for k := range rb.packets {..}; sort.Ints(keys)
HdKeys(h) ==
    /\ ~hdFatal
    /\ hd[h].pc = "keys"
    /\ hd' = [hd EXCEPT ![h].pc = "concat",
                        ![h].keys = SortInts(DOMAIN hdHeap[hd[h].rb].packets)]
    /\ UNCHANGED <<HdOthers, dups, rtVars, hdHeap, hdMap, hdLock, hdFatal>>

\* for _, k := range keys { fullResponseData.Write(rb.packets[k]) }
HdConcat(h) ==
    /\ ~hdFatal
    /\ hd[h].pc = "concat"
    /\ hd' = [hd EXCEPT ![h].pc = "delete",
                        ![h].data = WriteAll(hdHeap[hd[h].rb].packets,
                                             hd[h].keys)]
    /\ UNCHANGED <<HdOthers, dups, rtVars, hdHeap, hdMap, hdLock, hdFatal>>

\* responseBuffers.Delete(packet.ID)
HdDelete(h) ==
    /\ ~hdFatal
    /\ hd[h].pc = "delete"
    /\ hdMap' = [hdMap EXCEPT ![hd[h].packet.ID] = 0]
    /\ hd' = [hd EXCEPT ![h].pc = "deliver"]
    /\ UNCHANGED <<HdOthers, dups, rtVars, hdHeap, hdLock, hdFatal>>

\* json.Unmarshal of the full response and the rest of the handler, which
\* use neither the map nor the buffer; the handler returns
HdReturn(h) ==
    /\ ~hdFatal
    /\ hd[h].pc = "deliver"
    /\ rtOut' = Append(rtOut, hd[h].data)
    /\ hd' = [hd EXCEPT ![h] = HdIdle]
    /\ UNCHANGED <<HdOthers, dups, rtData, rtSent, rtDone, rtPool, rtSeen,
                   rtLast, hdHeap, hdMap, hdLock, hdFatal>>

\* handler h is inside its critical section on a buffer whose map another
\* handler is reading without the mutex, or the other way round
HdReading(h) == hd[h].pc = "concat"

HdWriting(h) == hd[h].pc = "store"

HdRace(h) ==
    \E g \in 1..NumHandlers :
        /\ g # h
        /\ hd[g].rb = hd[h].rb
        /\ \/ HdWriting(h) /\ HdReading(g)
           \/ HdReading(h) /\ HdWriting(g)

\* A Go map that is read while it is written: the runtime may notice and
\* end the process ("fatal error: concurrent map read and map write"), or
\* the accesses go through as the other steps have it.
HdThrow(h) ==
    /\ ~hdFatal
    /\ HdRace(h)
    /\ hdFatal' = TRUE
    /\ UNCHANGED <<HdOthers, dups, rtVars, hdHeap, hdMap, hdLock, hd>>

HdNext ==
    \/ HdSend
    \/ \E h \in 1..NumHandlers : HdStart(h)
    \/ \E h \in 1..NumHandlers : HdLoadOrStore(h)
    \/ \E h \in 1..NumHandlers : HdLock(h)
    \/ \E h \in 1..NumHandlers : HdStore(h)
    \/ \E h \in 1..NumHandlers : HdKeys(h)
    \/ \E h \in 1..NumHandlers : HdConcat(h)
    \/ \E h \in 1..NumHandlers : HdDelete(h)
    \/ \E h \in 1..NumHandlers : HdReturn(h)
    \/ \E h \in 1..NumHandlers : HdThrow(h)

SpecHandlers == HdInit /\ [][HdNext]_vars

\* -------------------------------------------------- logical-message codec
\* encoding/json on ForwardedRequest and ForwardedResponse: the id, one
\* field standing for the remaining scalar fields, and the body with its
\* length, so that a truncated or extended byte string does not decode.
Bodies == SeqsUpTo({0}, MaxBody)
Method == 0

MarshalRequest(req) == <<req.ID, req.Method, Len(req.Body)>> \o req.Body

UnmarshalRequest(bytes) ==
    IF Len(bytes) >= 3 /\ Len(bytes) = 3 + bytes[3]
      THEN [ok |-> TRUE,
            v |-> [ID |-> bytes[1], Method |-> bytes[2],
                   Body |-> SubSeq(bytes, 4, Len(bytes))]]
      ELSE [ok |-> FALSE]

MarshalResponse(resp) ==
    <<resp.ID, resp.StatusCode, Len(resp.Body)>> \o resp.Body

UnmarshalResponseLenient(bytes) ==
    IF Len(bytes) >= 3
      THEN [ok |-> TRUE,
            v |-> [ID |-> bytes[1], StatusCode |-> bytes[2],
                   Body |-> SubSeq(bytes, 4, Len(bytes))]]
      ELSE [ok |-> FALSE]

UnmarshalResponse(bytes) ==
    IF Len(bytes) >= 3 /\ Len(bytes) = 3 + bytes[3]
      THEN [ok |-> TRUE,
            v |-> [ID |-> bytes[1], StatusCode |-> bytes[2],
                   Body |-> SubSeq(bytes, 4, Len(bytes))]]
      ELSE [ok |-> FALSE]

\* --------------------------------------------------- endpoint: execution
\* []byte(message) of the three error texts: non-empty, pairwise different
FailedToCreateRequest == <<1>>
FailedToExecuteRequest == <<2>>
FailedToReadResponseBody == <<3>>

errorResponse(id, code, message) ==
    [ID |-> id, StatusCode |-> code, Body |-> message]

\* What the forwarding target does with one call: http.NewRequest fails,
\* client.Do fails, reading the body fails, or the target answers.
Outcomes ==
    {[kind |-> k, body |-> << >>] : k \in {"newreq", "do", "read"}}
        \cup {[kind |-> "ok", body |-> b] : b \in Bodies}

executeRequestDropsFailure(req, o) ==
    CASE o.kind = "newreq" ->
            errorResponse(req.ID, StatusInternalServerError,
                          FailedToCreateRequest)
      [] o.kind = "do" ->
            errorResponse(req.ID, StatusOK, << >>)
      [] o.kind = "read" ->
            errorResponse(req.ID, StatusInternalServerError,
                          FailedToReadResponseBody)
      [] OTHER -> [ID |-> req.ID, StatusCode |-> StatusOK, Body |-> o.body]

executeRequest(req, o) ==
    CASE o.kind = "newreq" ->
            errorResponse(req.ID, StatusInternalServerError,
                          FailedToCreateRequest)
      [] o.kind = "do" ->
            errorResponse(req.ID, StatusBadGateway, FailedToExecuteRequest)
      [] o.kind = "read" ->
            errorResponse(req.ID, StatusInternalServerError,
                          FailedToReadResponseBody)
      [] OTHER -> [ID |-> req.ID, StatusCode |-> StatusOK, Body |-> o.body]

\* ------------------------------------------------------ gateway: httpHandler
Init == SysInit /\ RtIdle

SetOut(c, via, status, body, rid, pid) ==
    hout' = [hout EXCEPT ![c] =
                [via |-> via, status |-> status, body |-> body, rid |-> rid,
                 pid |-> pid]]

\* responseChannels.Store(req.ID, ch)
Register(chs, id) == chs \cup {id}

\* req.ID = uuid.NewString(); Store; json.Marshal(req).  Call c gets the
\* c-th uuid that is generated.  (The two returns before this point, on a
\* nil dataConnection and on a failed io.ReadAll, touch nothing shared.)
HttpStart(c) ==
    /\ hpc[c] = "idle"
    /\ \A d \in Ids : d < c => hpc[d] # "idle"
    /\ responseChannels' = Register(responseChannels, c)
    /\ \/ \E body \in Bodies :
             /\ hreq' = [hreq EXCEPT ![c] =
                   MarshalRequest([ID |-> c, Method |-> Method,
                                   Body |-> body])]
             /\ hpc' = [hpc EXCEPT ![c] = "sending"]
             /\ hout' = hout
       \/ /\ hpc' = [hpc EXCEPT ![c] = "returning"]
          /\ SetOut(c, "marshal", StatusInternalServerError, << >>, 0, 0)
          /\ hreq' = hreq
    /\ UNCHANGED <<hnext, gwSend, reassembled, responseBuffers, netVars,
                   dups, epVars, rtVars,
                   hdVars>>

\* one iteration of sendSplitPacket(dataConnection, req.ID, "request", ..)
HttpSendPacketSkipsFailed(c) ==
    /\ hpc[c] = "sending"
    /\ LET packet == MakePacket(c, PacketTypeRequest, hreq[c], hnext[c])
       IN \/ /\ toEp' = Append(toEp, packet)
             /\ hnext' = [hnext EXCEPT ![c] = @ + 1]
             /\ hpc' = [hpc EXCEPT ![c] =
                           IF packet.IsLast THEN "waiting" ELSE "sending"]
             /\ hout' = hout
          \/ /\ hpc' = [hpc EXCEPT ![c] =
                           IF packet.IsLast THEN "returning" ELSE "sending"]
             /\ SetOut(c, "send", StatusInternalServerError, << >>, 0, 0)
             /\ hnext' = [hnext EXCEPT ![c] = @ + 1]
             /\ toEp' = toEp
    /\ UNCHANGED <<hreq, responseChannels, gwSend, reassembled,
                   responseBuffers, toGw, dups, epVars, rtVars, hdVars>>

HttpSendPacket(c) ==
    /\ hpc[c] = "sending"
    /\ LET packet == MakePacket(c, PacketTypeRequest, hreq[c], hnext[c])
       IN \/ /\ toEp' = Append(toEp, packet)
             /\ hnext' = [hnext EXCEPT ![c] = @ + 1]
             /\ hpc' = [hpc EXCEPT ![c] =
                           IF packet.IsLast THEN "waiting" ELSE "sending"]
             /\ hout' = hout
          \/ /\ hpc' = [hpc EXCEPT ![c] = "returning"]
             /\ SetOut(c, "send", StatusInternalServerError, << >>, 0, 0)
             /\ UNCHANGED <<toEp, hnext>>
    /\ UNCHANGED <<hreq, responseChannels, gwSend, reassembled,
                   responseBuffers, toGw, dups, epVars, rtVars,
                   hdVars>>

\* select: case resp := <-ch, rendezvous with a handler blocked in ch <- &resp
HttpReceive(c) ==
    /\ hpc[c] = "waiting"
    /\ \E k \in 1..MaxHandlers :
          /\ gwSend[k] # NoSend
          /\ gwSend[k].ch = c
          /\ gwSend' = [gwSend EXCEPT ![k] = NoSend]
          /\ SetOut(c, "response", gwSend[k].resp.StatusCode,
                    gwSend[k].resp.Body, gwSend[k].resp.ID, gwSend[k].pid)
    /\ hpc' = [hpc EXCEPT ![c] = "returning"]
    /\ UNCHANGED <<hreq, hnext, responseChannels, reassembled,
                   responseBuffers, netVars, dups, epVars, rtVars,
                   hdVars>>

\* select: case <-time.After(30 * time.Second)
HttpTimeoutKeepsWaiting(c) ==
    /\ hpc[c] = "waiting"
    /\ hout[c] = NoOut
    /\ hpc' = hpc
    /\ SetOut(c, "timeout", StatusGatewayTimeout, << >>, 0, 0)
    /\ UNCHANGED <<hreq, hnext, responseChannels, gwSend, reassembled,
                   responseBuffers, netVars, dups, epVars, rtVars, hdVars>>

HttpTimeout(c) ==
    /\ hpc[c] = "waiting"
    /\ hpc' = [hpc EXCEPT ![c] = "returning"]
    /\ SetOut(c, "timeout", StatusGatewayTimeout, << >>, 0, 0)
    /\ UNCHANGED <<hreq, hnext, responseChannels, gwSend, reassembled,
                   responseBuffers, netVars, dups, epVars, rtVars,
                   hdVars>>

\* defer responseChannels.Delete(req.ID)
UnregisterForgets(chs, id) == chs

UnregisterAfterResponseOnly(chs, id) ==
    IF hout[id].via = "response" THEN chs \ {id} ELSE chs

Unregister(chs, id) == chs \ {id}

HttpReturn(c) ==
    /\ hpc[c] = "returning"
    /\ responseChannels' = Unregister(responseChannels, c)
    /\ hpc' = [hpc EXCEPT ![c] = "done"]
    /\ UNCHANGED <<hreq, hnext, hout, gwSend, reassembled, responseBuffers,
                   netVars, dups, epVars, rtVars,
                   hdVars>>

\* ------------------------------------------------ gateway: 'data' handler
\* responseChannels.Load(resp.ID)
LoadChannelIgnoresOk(chs, id) == TRUE

LoadChannel(chs, id) == id \in chs

FreeSlots == {k \in 1..MaxHandlers : gwSend[k] = NoSend}

\* if ch, ok := responseChannels.Load(resp.ID); ok { ch <- &resp }: the
\* handler stays blocked in the send until the httpHandler receives.
DeliverToAnyWaiter(chs, send, k, resp, pid) ==
    IF chs # {}
      THEN [send EXCEPT ![k] =
              [ch |-> CHOOSE c \in chs : \A d \in chs : c <= d,
               resp |-> resp, pid |-> pid]]
      ELSE send

Deliver(chs, send, k, resp, pid) ==
    IF LoadChannel(chs, resp.ID)
      THEN [send EXCEPT ![k] = [ch |-> resp.ID, resp |-> resp, pid |-> pid]]
      ELSE send

\* The handler on the next packet of the channel.  again: the transport
\* will deliver this packet once more.  Everything up to the Load is one
\* step: it touches no state an httpHandler uses.  A handler that finds the
\* channel stays blocked in the send, and at most MaxHandlers handlers are
\* blocked at once: with one, a blocked send holds up the packets behind it.
GwData(again) ==
    /\ toGw # << >>
    /\ FreeSlots # {}
    /\ IF again
         THEN dups < MaxDup /\ dups' = dups + 1 /\ toGw' = toGw
         ELSE dups' = dups /\ toGw' = Tail(toGw)
    /\ LET packet == Head(toGw)
           k == CHOOSE x \in FreeSlots : \A y \in FreeSlots : x <= y
           r == AcceptPacket(responseBuffers, packet)
           u == UnmarshalResponse(r.data)
       IN IF packet.Type # PacketTypeResponse
            THEN UNCHANGED <<responseBuffers, reassembled, gwSend>>
            ELSE /\ responseBuffers' = r.bufs
                 /\ reassembled' =
                       IF r.complete
                         THEN [reassembled EXCEPT ![packet.ID] = @ + 1]
                         ELSE reassembled
                 /\ gwSend' =
                       IF r.complete /\ u.ok
                         THEN Deliver(responseChannels, gwSend, k, u.v,
                                      packet.ID)
                         ELSE gwSend
    /\ UNCHANGED <<hpc, hreq, hnext, hout, responseChannels, toEp, epVars,
                   rtVars, hdVars>>

\* ------------------------------------------------------------- endpoint
\* handleAssembledRequest up to json.Marshal(resp), on the bytes the 'data'
\* handler hands to the new goroutine; o is what the forwarding target does.
\* Nothing in it touches shared state, so it is taken in one step with the
\* "go" statement.  A task keeps the packets it has sent.
handleAssembledRequest(fullRequestData, o) ==
    LET u == UnmarshalRequest(fullRequestData)
    IN IF ~u.ok
         THEN [pc |-> "done", err |-> "decode", kind |-> "none", rid |-> 0,
               req |-> fullRequestData,
               bytes |-> << >>, next |-> 0, sent |-> << >>]
         ELSE [pc |-> "sending", err |-> "none", kind |-> o.kind,
               rid |-> u.v.ID, req |-> fullRequestData,
               bytes |-> MarshalResponse(executeRequest(u.v, o)),
               next |-> 0, sent |-> << >>]

\* the 'data' handler of the endpoint on the next packet of the channel;
\* tasks[id]: the goroutines started for requests that came in packets of id
EpData(again) ==
    /\ toEp # << >>
    /\ IF again
         THEN dups < MaxDup /\ dups' = dups + 1 /\ toEp' = toEp
         ELSE dups' = dups /\ toEp' = Tail(toEp)
    /\ LET packet == Head(toEp)
           r == AcceptPacket(requestBuffers, packet)
       IN IF packet.Type # PacketTypeRequest
            THEN UNCHANGED <<requestBuffers, tasks>>
            ELSE /\ requestBuffers' = r.bufs
                 /\ IF r.complete
                      THEN \E o \in Outcomes :
                             tasks' = [tasks EXCEPT ![packet.ID] =
                                Append(@, handleAssembledRequest(r.data, o))]
                      ELSE tasks' = tasks
    /\ UNCHANGED <<gwVars, responseBuffers, toGw, rtVars,
                   hdVars>>

\* the packet of the next iteration of
\* sendSplitPacket(conn, req.ID, PacketTypeResponse, respBytes)
ResponsePacketAsRequest(task) ==
    MakePacket(task.rid, PacketTypeRequest, task.bytes, task.next)

ResponsePacket(task) ==
    MakePacket(task.rid, PacketTypeResponse, task.bytes, task.next)

EpSendPacket(i, t) ==
    /\ tasks[i][t].pc = "sending"
    /\ LET packet == ResponsePacket(tasks[i][t])
       IN \/ /\ toGw' = Append(toGw, packet)
             /\ tasks' = [tasks EXCEPT
                   ![i][t].next = @ + 1,
                   ![i][t].sent = Append(@, packet),
                   ![i][t].pc = IF packet.IsLast THEN "done" ELSE "sending"]
          \/ /\ tasks' = [tasks EXCEPT ![i][t].pc = "done",
                                       ![i][t].err = "send"]
             /\ toGw' = toGw
    /\ UNCHANGED <<gwVars, responseBuffers, toEp, dups, requestBuffers,
                   rtVars, hdVars>>

\* ---------------------------------------------------------- whole system
Next ==
    \/ \E c \in Ids : HttpStart(c)
    \/ \E c \in Ids : HttpSendPacket(c)
    \/ \E c \in Ids : HttpReceive(c)
    \/ \E c \in Ids : HttpTimeout(c)
    \/ \E c \in Ids : HttpReturn(c)
    \/ GwData(FALSE)
    \/ EpData(FALSE)
    \/ \E i \in Ids : \E t \in 1..Len(tasks[i]) : EpSendPacket(i, t)

\* Concurrent calls over a channel that delivers every packet once, in
\* the order sent.
Spec == Init /\ [][Next]_vars

\* Calls made one after the other, each when the tunnel has fallen silent,
\* over a channel that may deliver a packet again (at-least-once delivery).
OneAtATime(c) ==
    /\ \A d \in Ids : d < c => hpc[d] = "done"
    /\ toEp = << >> /\ toGw = << >>
    /\ \A i \in Ids : \A t \in 1..Len(tasks[i]) : tasks[i][t].pc = "done"

NextRedelivery ==
    \/ \E c \in Ids : OneAtATime(c) /\ HttpStart(c)
    \/ \E c \in Ids : HttpSendPacket(c)
    \/ \E c \in Ids : HttpReceive(c)
    \/ \E c \in Ids : HttpTimeout(c)
    \/ \E c \in Ids : HttpReturn(c)
    \/ \E again \in BOOLEAN : GwData(again)
    \/ \E again \in BOOLEAN : EpData(again)
    \/ \E i \in Ids : \E t \in 1..Len(tasks[i]) : EpSendPacket(i, t)

SpecRedelivery == Init /\ [][NextRedelivery]_vars

\* --------------------------------------- a peer that sends other bytes
\* The handlers take whatever the channel brings.  A peer that is not this
\* program can send, in well-formed packets, a message whose bytes are not
\* a ForwardedRequest / ForwardedResponse: here the encoding of one with a
\* byte too many.  It answers a waiting call that way, once, or sends such
\* a request under an id no call of this gateway has generated.
NoneUnderWay(queue, i) == \A j \in 1..Len(queue) : queue[j].ID # i

Undecodable(id) == <<id, StatusOK, 0, 0>>

\* the packets sendSplitPacket makes of data, from packet i on
RECURSIVE SplitFrom(_, _, _, _)
SplitFrom(id, packetType, data, i) ==
    LET packet == MakePacket(id, packetType, data, i)
    IN IF packet.IsLast THEN <<packet>>
       ELSE <<packet>> \o SplitFrom(id, packetType, data, i + 1)

PeerBadResponse(c) ==
    /\ hpc[c] = "waiting"
    /\ reassembled[c] = 0
    /\ responseBuffers[c] = NoBuffer
    /\ NoneUnderWay(toGw, c)
    /\ toGw' = toGw \o SplitFrom(c, PacketTypeResponse, Undecodable(c), 0)
    /\ UNCHANGED <<gwVars, responseBuffers, toEp, dups, epVars, rtVars,
                   hdVars>>

PeerBadRequest(i) ==
    /\ hpc[i] = "idle"
    /\ tasks[i] = << >>
    /\ requestBuffers[i] = NoBuffer
    /\ NoneUnderWay(toEp, i)
    /\ toEp' = toEp \o SplitFrom(i, PacketTypeRequest, Undecodable(i), 0)
    /\ UNCHANGED <<gwVars, responseBuffers, toGw, dups, epVars, rtVars,
                   hdVars>>

NextDecode ==
    \/ \E c \in Ids : OneAtATime(c) /\ HttpStart(c)
    \/ \E c \in Ids : HttpSendPacket(c)
    \/ \E c \in Ids : HttpReceive(c)
    \/ \E c \in Ids : HttpTimeout(c)
    \/ \E c \in Ids : HttpReturn(c)
    \/ GwData(FALSE)
    \/ EpData(FALSE)
    \/ \E i \in Ids : \E t \in 1..Len(tasks[i]) : EpSendPacket(i, t)
    \/ \E c \in Ids : PeerBadResponse(c)
    \/ \E i \in Ids : PeerBadRequest(i)

SpecDecode == Init /\ [][NextDecode]_vars

\* a frame handler is blocked handing a response to call c
HandingTo(c) == \E k \in 1..MaxHandlers : gwSend[k] # NoSend /\ gwSend[k].ch = c

\* C1: round trip.  As long as no packet was delivered twice, the handler
\* has produced at most one payload; it produces none before every packet of
\* the message was sent and accepted, and once they all were, in whatever
\* order, it has produced exactly the payload that was split.
RtAllAccepted == rtDone /\ rtPool = {}

C1_RoundTrip ==
    dups = 0 =>
        /\ Len(rtOut) <= 1
        /\ rtOut # << >> => RtAllAccepted
        /\ RtAllAccepted => rtOut = <<rtData.data>>

\* a three-packet message whose last packet was accepted first
C1_Witness ==
    /\ dups = 0
    /\ Len(rtSent) = 3
    /\ Len(rtSeen) = 3
    /\ rtSeen[1].IsLast
    /\ rtSeen[2].Sequence = 1
    /\ rtOut = <<rtData.data>>
    /\ rtData.data[1] # rtData.data[MaxChunkSize + 1]

\* C2: shape of the splitter's output.  For a payload of length L the
\* packets sent so far are numbered 0,1,2.. without gaps, none is longer
\* than MaxChunkSize, there are never more than max(1, ceil(L/MaxChunkSize))
\* of them and exactly that many when the loop has ended, is_last is set on
\* that last one only, and a packet is empty only if L = 0.
RtFrames == Max(1, CeilDiv(Len(rtData.data), MaxChunkSize))

C2_SplitterShape ==
    /\ Len(rtSent) <= RtFrames
    /\ rtDone <=> Len(rtSent) = RtFrames
    /\ \A i \in 1..Len(rtSent) :
          /\ rtSent[i].Sequence = i - 1
          /\ rtSent[i].ID = rtData.id
          /\ rtSent[i].Type = PacketTypeResponse
          /\ Len(rtSent[i].Payload) <= MaxChunkSize
          /\ rtSent[i].IsLast <=> i = RtFrames
          /\ Len(rtSent[i].Payload) = 0 => Len(rtData.data) = 0

\* a payload of exactly two chunks, sent as two packets
C2_Witness ==
    /\ rtDone
    /\ Len(rtData.data) = 2 * MaxChunkSize
    /\ Len(rtSent) = 2
    /\ Len(rtSent[2].Payload) = MaxChunkSize

\* C4: idempotence after completion, as claimed.  Once the message was
\* reassembled, no ReassemblyBuffer exists for its id any more and it is not
\* reported complete a second time, whatever packet of it arrives again.
C4_NoResurrection ==
    rtOut # << >> =>
        /\ responseBuffers[rtData.id] = NoBuffer
        /\ Len(rtOut) = 1

\* C11: completeness test with duplicates.  In every run of the handler on
\* a packet p of the message: the message is reported complete exactly when,
\* with p counted in, the terminal sequence number is known and the number
\* of distinct stored sequence numbers is terminal + 1, and then the stored
\* numbers are exactly 0..terminal; otherwise the buffer holds what it held
\* with p's payload at p's number, so a number that was already stored is
\* overwritten and the count stays as it was.
RtHandled == rtSeen' # rtSeen \/ dups' # dups

RtBefore ==
    IF responseBuffers[rtData.id] = NoBuffer
      THEN NewReassemblyBuffer
      ELSE responseBuffers[rtData.id]

C11_Step ==
    LET b      == RtBefore
        p      == rtLast'
        stored == DOMAIN b.packets
        after  == stored \cup {p.Sequence}
        term   == IF p.IsLast THEN p.Sequence ELSE b.lastSequence
        known  == term # NoLast
        full   == known /\ Cardinality(after) = term + 1
        b2     == responseBuffers'[rtData.id]
    IN /\ Len(rtOut') > Len(rtOut) <=> full
       /\ full => after = 0..term
       /\ ~full =>
             /\ b2 # NoBuffer
             /\ DOMAIN b2.packets = after
             /\ b2.packets[p.Sequence] = p.Payload
             /\ \A s \in stored \ {p.Sequence} : b2.packets[s] = b.packets[s]
             /\ p.Sequence \in stored =>
                   Cardinality(DOMAIN b2.packets) = Cardinality(stored)
             /\ known => \E s \in 0..term : s \notin DOMAIN b2.packets

C11_Completeness == [][RtHandled => C11_Step]_vars

\* the last packet of a three-packet message came first and was delivered
\* again when two packets were stored: still two stored, still incomplete
C11_Witness ==
    /\ dups = 1
    /\ rtOut = << >>
    /\ Len(rtSeen) = 2
    /\ rtSeen[1].IsLast
    /\ rtLast = rtSeen[1]
    /\ responseBuffers[rtData.id] # NoBuffer
    /\ Cardinality(DOMAIN responseBuffers[rtData.id].packets) = 2
    /\ responseBuffers[rtData.id].lastSequence = 2

\* C12: isolation between messages.  A handler step changes the
\* ReassemblyBuffer of no id but that of the packet it runs on; every
\* request the endpoint reassembles is, byte for byte, the request the call
\* of that id marshalled, and every response the gateway hands over is the
\* one a task built for that id, whatever the interleaving of the packets of
\* the calls in flight.
C12_FrameEffect ==
    \A i \in Ids :
        /\ requestBuffers'[i] # requestBuffers[i] =>
              toEp # << >> /\ Head(toEp).ID = i
        /\ responseBuffers'[i] # responseBuffers[i] =>
              toGw # << >> /\ Head(toGw).ID = i

C12_OwnPayload ==
    /\ \A i \in Ids : \A t \in 1..Len(tasks[i]) :
          /\ tasks[i][t].req = hreq[i]
          /\ tasks[i][t].rid = i
    /\ \A k \in 1..MaxHandlers : gwSend[k] # NoSend =>
          \E t \in 1..Len(tasks[gwSend[k].ch]) :
              MarshalResponse(gwSend[k].resp) = tasks[gwSend[k].ch][t].bytes

C12_Isolation == [][C12_FrameEffect /\ C12_OwnPayload']_vars

\* two requests of two packets each, their packets interleaved on the
\* channel: the later call's request is whole while the earlier one's
\* buffer still waits for its last packet
C12_Witness ==
    /\ NumCalls >= 2
    /\ Len(hreq[1]) > MaxChunkSize
    /\ Len(hreq[2]) > MaxChunkSize
    /\ tasks[1] = << >>
    /\ requestBuffers[1] # NoBuffer
    /\ requestBuffers[2] = NoBuffer
    /\ Len(tasks[2]) = 1
    /\ tasks[2][1].req = hreq[2]

\* C13: lifecycle of a ReassemblyBuffer.  A buffer for id X appears in a
\* map only in a handler step on a packet of X, holding that packet alone;
\* it leaves the map only in the handler step that finds X complete, and
\* that step always removes it; so the buffer of a message that lost its
\* tail to a failed send is in the map once its packets have arrived, and
\* stays.
Created(bufs, bufs2, queue, i) ==
    (bufs[i] = NoBuffer /\ bufs2[i] # NoBuffer) =>
        /\ queue # << >>
        /\ Head(queue).ID = i
        /\ DOMAIN bufs2[i].packets = {Head(queue).Sequence}

C13_Step ==
    \A i \in Ids :
        /\ Created(requestBuffers, requestBuffers', toEp, i)
        /\ Created(responseBuffers, responseBuffers', toGw, i)
        /\ (requestBuffers[i] # NoBuffer /\ requestBuffers'[i] = NoBuffer)
              => Len(tasks'[i]) = Len(tasks[i]) + 1
        /\ (responseBuffers[i] # NoBuffer /\ responseBuffers'[i] = NoBuffer)
              => reassembled'[i] = reassembled[i] + 1
        /\ Len(tasks'[i]) > Len(tasks[i]) => requestBuffers'[i] = NoBuffer
        /\ reassembled'[i] > reassembled[i] => responseBuffers'[i] = NoBuffer

\* the request of call c, or the response of a task for c, was cut short by
\* a failed send after at least one packet
RequestCut(c) == hout[c].via = "send" /\ hnext[c] >= 1

ResponseCut(c) ==
    /\ Len(tasks[c]) = 1
    /\ tasks[c][1].err = "send"
    /\ tasks[c][1].next >= 1

C13_Abandoned ==
    \A c \in Ids :
        /\ (RequestCut(c) /\ NoneUnderWay(toEp, c)) =>
              /\ requestBuffers[c] # NoBuffer
              /\ ~IsComplete(requestBuffers[c])
              /\ tasks[c] = << >>
        /\ (ResponseCut(c) /\ NoneUnderWay(toGw, c)) =>
              /\ responseBuffers[c] # NoBuffer
              /\ ~IsComplete(responseBuffers[c])
              /\ reassembled[c] = 0

C13_Lifecycle == [][C13_Step /\ C13_Abandoned']_vars

\* every call has returned and the channel is empty; the first packet of a
\* request that lost its second packet to a failed send is still buffered
C13_Witness ==
    /\ \A c \in Ids : hpc[c] = "done"
    /\ toEp = << >>
    /\ toGw = << >>
    /\ \E c \in Ids :
          /\ RequestCut(c)
          /\ requestBuffers[c] # NoBuffer
          /\ DOMAIN requestBuffers[c].packets = {0}

\* C14: single ReassemblyBuffer per id under concurrency, as claimed.  The
\* buffers in use for an id, the one in the map and those a running handler
\* got from LoadOrStore and has yet to lock, write or read, are never more
\* than one; and no handler is about to store a packet into a buffer that
\* is out of the map while the map holds another buffer for that id.
HdHolds(h) == hd[h].pc \in {"lock", "store", "keys", "concat"}

HdInUse(id) ==
    {hd[h].rb : h \in {g \in 1..NumHandlers :
                          HdHolds(g) /\ hd[g].packet.ID = id}}
        \cup ({hdMap[id]} \ {0})

HdStaleStore(h) ==
    /\ hd[h].pc \in {"lock", "store"}
    /\ hdMap[hd[h].packet.ID] \notin {0, hd[h].rb}

C14_SingleBuffer ==
    /\ \A id \in Ids : Cardinality(HdInUse(id)) <= 1
    /\ \A h \in 1..NumHandlers : ~HdStaleStore(h)

\* C20: exclusive access to a ReassemblyBuffer, as claimed.  No handler is
\* inside its critical section on a buffer, writing rb.packets, while
\* another handler is in the middle of reading the same rb.packets for the
\* concatenation; and what a handler concatenates is the message.
C20_NoRace == \A h \in 1..NumHandlers : ~HdRace(h)

C20_ExclusiveAccess ==
    /\ C20_NoRace
    /\ ~hdFatal
    /\ \A k \in 1..Len(rtOut) : rtOut[k] = rtData.data

\* C15: send failure.  The request packets of a call go out one by one in
\* the order of their numbers, each once.  The step in which the transport
\* refuses packet k sends nothing and takes the call from sending straight
\* to its answer, status 500; from then on no packet of the call is sent
\* (none above k, none again), the call never waits for a response, and
\* when it has returned its id is out of responseChannels.
SendFailed(c) == hout[c].via = "send"

RequestFrames(c) == Max(1, CeilDiv(Len(hreq[c]), MaxChunkSize))

\* this step puts a request packet of call c on the channel
SendsPacketOf(c) ==
    /\ Len(toEp') > Len(toEp)
    /\ toEp'[Len(toEp')].ID = c

C15_Step ==
    \A c \in Ids :
        /\ SendsPacketOf(c) =>
              /\ toEp'[Len(toEp')].Sequence = hnext[c]
              /\ hnext'[c] = hnext[c] + 1
              /\ ~SendFailed(c)'
        /\ (~SendFailed(c) /\ SendFailed(c)') =>
              /\ hpc[c] = "sending"
              /\ hpc'[c] = "returning"
              /\ toEp' = toEp
              /\ hnext'[c] = hnext[c]
        /\ SendFailed(c) =>
              /\ ~SendsPacketOf(c)
              /\ hnext'[c] = hnext[c]
              /\ hout'[c] = hout[c]

C15_State ==
    \A c \in Ids : SendFailed(c) =>
        /\ hout[c].status = StatusInternalServerError
        /\ hnext[c] < RequestFrames(c)
        /\ hpc[c] \in {"returning", "done"}
        /\ hpc[c] = "done" => c \notin responseChannels
        /\ ~HandingTo(c)

C15_SendFailure == [][C15_Step /\ C15_State']_vars

\* the second of two request packets was refused: the call has returned
\* with 500, one packet sent, no pending call left
C15_Witness ==
    \E c \in Ids :
        /\ SendFailed(c)
        /\ hpc[c] = "done"
        /\ hout[c].status = StatusInternalServerError
        /\ hnext[c] = 1
        /\ RequestFrames(c) = 2
        /\ c \notin responseChannels

\* C17: timeout versus deliver.  A call leaves its wait in one step that
\* writes exactly one outcome: the response a frame handler was handing to
\* it, taken from that handler, or the gateway timeout, with every hand-off
\* left as it was.  An outcome once written is never replaced, nothing is
\* received for a call that has one, a call past its wait has one, and a
\* call that has returned has no entry in responseChannels.
HandOffsTo(send, c) ==
    {k \in 1..MaxHandlers : send[k] # NoSend /\ send[k].ch = c}

C17_Step ==
    \A c \in Ids :
        /\ hout[c] # NoOut => hout'[c] = hout[c]
        /\ (hpc[c] = "waiting" /\ hpc'[c] # "waiting") =>
              /\ hout[c] = NoOut
              /\ hpc'[c] = "returning"
              /\ \/ /\ hout'[c].via = "response"
                    /\ \E k \in HandOffsTo(gwSend, c) :
                          /\ gwSend' = [gwSend EXCEPT ![k] = NoSend]
                          /\ hout'[c].status = gwSend[k].resp.StatusCode
                          /\ hout'[c].body = gwSend[k].resp.Body
                 \/ /\ hout'[c].via = "timeout"
                    /\ hout'[c].status = StatusGatewayTimeout
                    /\ gwSend' = gwSend
        /\ HandOffsTo(gwSend, c) \ HandOffsTo(gwSend', c) # {} =>
              hpc[c] = "waiting" /\ hout[c] = NoOut

C17_State ==
    \A c \in Ids :
        /\ hpc[c] \in {"returning", "done"} <=> hout[c] # NoOut
        /\ hpc[c] = "done" => c \notin responseChannels

C17_TimeoutVersusDeliver == [][C17_Step /\ C17_State']_vars

\* a response was being handed to a waiting call when its deadline fired:
\* the call has returned with the timeout alone and is no longer pending
C17_Witness ==
    \E c \in Ids :
        /\ hpc[c] = "done"
        /\ hout[c].via = "timeout"
        /\ hout[c].status = StatusGatewayTimeout
        /\ HandingTo(c)
        /\ c \notin responseChannels

\* C16: decode failure.  A reassembled request that does not decode gives a
\* goroutine that ends at once: nothing executed, no response built, no
\* packet sent, the buffer already out of the map.  A reassembled response
\* that does not decode is dropped by the handler step that reassembled it:
\* the buffer is out of the map and no call, pending entry or hand-off has
\* changed.  A call that got as far as its wait and whose exchange brought
\* no packet of a real response ends with the gateway timeout.
DecodeFailed(task) == task.err = "decode"

C16_Responder ==
    \A i \in Ids : \A t \in 1..Len(tasks[i]) :
        /\ DecodeFailed(tasks[i][t]) <=> ~UnmarshalRequest(tasks[i][t].req).ok
        /\ DecodeFailed(tasks[i][t]) =>
              /\ tasks[i][t].pc = "done"
              /\ tasks[i][t].kind = "none"
              /\ tasks[i][t].bytes = << >>
              /\ tasks[i][t].sent = << >>

C16_Step ==
    /\ \A i \in Ids :
          (/\ Len(tasks'[i]) > Len(tasks[i])
           /\ DecodeFailed(tasks'[i][Len(tasks'[i])])) =>
              /\ requestBuffers'[i] = NoBuffer
              /\ toGw' = toGw
    /\ \A i \in Ids :
          (/\ reassembled'[i] > reassembled[i]
           /\ AcceptPacket(responseBuffers, Head(toGw)).data
                  = Undecodable(i)) =>
              /\ responseBuffers'[i] = NoBuffer
              /\ UNCHANGED <<hpc, hreq, hnext, hout, responseChannels,
                             gwSend>>

NoRealResponse(c) == \A t \in 1..Len(tasks[c]) : tasks[c][t].sent = << >>

C16_Initiator ==
    \A c \in Ids :
        (/\ hpc[c] = "done"
         /\ hout[c].via \notin {"marshal", "send"}
         /\ NoRealResponse(c)) =>
            /\ hout[c].via = "timeout"
            /\ hout[c].status = StatusGatewayTimeout

C16_DecodeFailure ==
    [][C16_Step /\ C16_Responder' /\ C16_Initiator']_vars

\* the endpoint got a request that did not decode and started nothing; the
\* call was answered with a response that did not decode, which was
\* reassembled and dropped, and the call ended with the timeout
C16_Witness ==
    \E c \in Ids :
        /\ hpc[c] = "done"
        /\ hout[c].via = "timeout"
        /\ reassembled[c] = 1
        /\ responseBuffers[c] = NoBuffer
        /\ NoRealResponse(c)
        /\ ~HandingTo(c)
        /\ tasks[c] # << >>
        /\ DecodeFailed(tasks[c][1])
        /\ Len(tasks[c][1].req) > MaxChunkSize

\* C19: delivery never blocks the session loop, as claimed.  A frame
\* handler that stands in "ch <- &resp" can still be served: the call that
\* owns ch has not left its select.  (Only that call ever receives from ch,
\* and it receives in its select only, so a hand-off to a call that is past
\* the select never completes and the handler never returns.)
Stranded(k) ==
    /\ gwSend[k] # NoSend
    /\ hpc[gwSend[k].ch] \in {"returning", "done"}

C19_HandOffCompletes == \A k \in 1..MaxHandlers : ~Stranded(k)

\* C18: at most one attempt per exchange, as claimed.  For every id the
\* gateway has sent no more packets than the request has, and the endpoint
\* has run the downstream call, and started a response message, at most
\* once, also when the transport delivers a packet again.
Executions(i) == {t \in 1..Len(tasks[i]) : tasks[i][t].kind # "none"}

C18_AtMostOneAttempt ==
    \A i \in Ids :
        /\ hnext[i] <= RequestFrames(i)
        /\ Cardinality(Executions(i)) <= 1

\* ------------------------------------------------------------------------
\* C3: exactly-once delivery, as claimed.  Once call c has been handed a
\* response, a further response with its id finds no pending call: no frame
\* handler ever stands in a hand-off to c after c received.
C3_SecondNotDelivered ==
    \A c \in Ids : hout[c].via = "response" => ~HandingTo(c)

\* C5: timeout.  A call that takes the deadline branch answers 504; when it
\* has returned its id is out of responseChannels; and a response for that
\* id that is reassembled after the return changes nothing on the gateway
\* but the buffer map: no call, no pending entry, no hand-off.
TimedOut(c) == hpc[c] = "done" /\ hout[c].via = "timeout"

C5_Timeout ==
    [][\A c \in Ids :
          /\ hout'[c].via = "timeout" =>
                hout'[c].status = StatusGatewayTimeout
          /\ TimedOut(c)' => c \notin responseChannels'
          /\ TimedOut(c) /\ reassembled'[c] > reassembled[c] =>
                UNCHANGED <<hpc, hreq, hnext, hout, responseChannels, gwSend>>
      ]_vars

\* a call timed out and returned, and its response was reassembled later
\* (nobody is handing it over, so the lookup failed)
C5_Witness ==
    \E c \in Ids :
        /\ TimedOut(c)
        /\ hout[c].status = StatusGatewayTimeout
        /\ reassembled[c] = 1
        /\ ~HandingTo(c)

\* C6: correlation.  What a call receives on its channel, and what a frame
\* handler is about to hand to a call, is a response that carries the id
\* the call generated and that was reassembled from packets of that id.
C6_Correlation ==
    /\ \A c \in Ids : hout[c].via = "response" =>
          /\ hout[c].rid = c
          /\ hout[c].pid = c
    /\ \A k \in 1..MaxHandlers : gwSend[k] # NoSend =>
          /\ gwSend[k].resp.ID = gwSend[k].ch
          /\ gwSend[k].pid = gwSend[k].ch

\* two calls in flight together, the later one answered first, each with
\* its own response
C6_Witness ==
    /\ NumCalls >= 2
    /\ hpc[1] = "waiting"
    /\ hout[2].via = "response"
    /\ hout[2].status = StatusOK
    /\ HandingTo(1)
    /\ \E k \in 1..MaxHandlers :
          gwSend[k] # NoSend /\ gwSend[k].resp.StatusCode = StatusBadGateway

\* C7: responder reply.
RECURSIVE JoinPayloads(_)
JoinPayloads(packets) ==
    IF packets = << >> THEN << >>
    ELSE Head(packets).Payload \o JoinPayloads(Tail(packets))

Replied(task) == task.pc = "done" /\ task.err = "none"

\* the packets a task has sent are numbered from 0 without gaps, are of
\* type response and carry the id of the request's packets
ReplyPacketsOK(i, task) ==
    \A j \in 1..Len(task.sent) :
        /\ task.sent[j].Type = PacketTypeResponse
        /\ task.sent[j].ID = i
        /\ task.sent[j].Sequence = j - 1
        /\ task.sent[j].IsLast <=> (Replied(task) /\ j = Len(task.sent))

\* the packets make up one complete message that decodes to a response
\* with the request's id
ReplyComplete(i, task) ==
    /\ Len(task.sent) = Max(1, CeilDiv(Len(task.bytes), MaxChunkSize))
    /\ task.sent[Len(task.sent)].IsLast
    /\ JoinPayloads(task.sent) = task.bytes
    /\ UnmarshalResponse(task.bytes).ok
    /\ UnmarshalResponse(task.bytes).v.ID = i

\* C7 as claimed: every task that has ended for a decoded request has sent
\* one complete response message.
C7_AlwaysReplies ==
    \A i \in Ids : \A t \in 1..Len(tasks[i]) :
        (tasks[i][t].pc = "done" /\ tasks[i][t].err # "decode") =>
            /\ ReplyPacketsOK(i, tasks[i][t])
            /\ ReplyComplete(i, tasks[i][t])

\* C7 as amended: the same unless a send of the transport failed; then the
\* task has sent the packets before the failing one, none of them the last,
\* and has stopped.
C7_RepliesUnlessSendFails ==
    \A i \in Ids : \A t \in 1..Len(tasks[i]) :
        /\ ReplyPacketsOK(i, tasks[i][t])
        /\ Replied(tasks[i][t]) => ReplyComplete(i, tasks[i][t])
        /\ tasks[i][t].err = "send" =>
              Len(tasks[i][t].sent) <
                 Max(1, CeilDiv(Len(tasks[i][t].bytes), MaxChunkSize))

\* a request that came in two packets, answered in two packets
C7_Witness ==
    \E i \in Ids : \E t \in 1..Len(tasks[i]) :
        /\ Replied(tasks[i][t])
        /\ Len(tasks[i][t].sent) = 2
        /\ Len(hreq[i]) > MaxChunkSize

\* C8: downstream failure.
DownstreamFailed(c) ==
    /\ tasks[c] # << >>
    /\ \A t \in 1..Len(tasks[c]) : tasks[c][t].kind = "do"

\* the response a task built for a failed client.Do: 502, non-empty body
BadGatewayReply(c, task) ==
    LET u == UnmarshalResponse(task.bytes)
    IN /\ u.ok
       /\ u.v.ID = c
       /\ u.v.StatusCode = StatusBadGateway
       /\ u.v.Body # << >>

\* C8 as claimed: the call whose downstream execution failed ends with the
\* 502 response, never with a timeout.
C8_EndsWith502 ==
    \A c \in Ids : (DownstreamFailed(c) /\ hpc[c] = "done") =>
        /\ hout[c].via = "response"
        /\ hout[c].status = StatusBadGateway

\* C8 as amended: the responder answers a failed downstream call with a
\* normal response message, status 502 and a non-empty body, sent whole
\* unless a send fails; the call for that id ends with that 502 response or,
\* if its deadline elapses before the hand-off, with the timeout, and with
\* nothing else.
C8_BadGateway ==
    \A c \in Ids :
        /\ \A t \in 1..Len(tasks[c]) : tasks[c][t].kind = "do" =>
              /\ BadGatewayReply(c, tasks[c][t])
              /\ ReplyPacketsOK(c, tasks[c][t])
              /\ Replied(tasks[c][t]) => ReplyComplete(c, tasks[c][t])
        /\ (DownstreamFailed(c) /\ hout[c].via # "none") =>
              \/ /\ hout[c].via = "response"
                 /\ hout[c].status = StatusBadGateway
                 /\ hout[c].body = FailedToExecuteRequest
              \/ hout[c].via = "timeout"

\* the downstream call failed and the caller got the 502
C8_Witness ==
    \E c \in Ids :
        /\ DownstreamFailed(c)
        /\ hpc[c] = "done"
        /\ hout[c].via = "response"
        /\ hout[c].status = StatusBadGateway
        /\ hout[c].body # << >>

\* C9: unknown-id delivery.  A frame handler that completes a response for
\* an id that is not in responseChannels changes nothing but the buffer
\* map: it ends without a hand-off, no call receives anything, and the set
\* of pending calls stays as it is.
C9_UnknownDropped ==
    [][\A i \in Ids :
          (reassembled'[i] > reassembled[i] /\ i \notin responseChannels) =>
              UNCHANGED <<hpc, hreq, hnext, hout, responseChannels, gwSend>>
      ]_vars

\* a response delivered a second time after its call had returned with the
\* first, and dropped
C9_Witness ==
    \E c \in Ids :
        /\ hpc[c] = "done"
        /\ hout[c].via = "response"
        /\ reassembled[c] = 2
        /\ ~HandingTo(c)

\* C10: lifetime of a pending call.  An id is in responseChannels only
\* while its httpHandler is between the Store and its return; when no
\* handler is running the map is empty.
Running(c) == hpc[c] \in {"sending", "waiting", "returning"}

C10_PendingLifetime ==
    /\ \A c \in Ids : c \in responseChannels => Running(c)
    /\ (\A c \in Ids : ~Running(c)) => responseChannels = {}

\* all calls have returned, one after a failed send, one on the deadline
C10_Witness ==
    /\ \A c \in Ids : hpc[c] = "done"
    /\ \E c \in Ids : hout[c].via = "send"
    /\ \E c \in Ids : hout[c].via = "timeout"
    /\ responseChannels = {}

====
